---- MODULE Spec2Model ----
(***************************************************************************)
(* Model of rfremoterunner_ssl/utils.py:                                   *)
(*   - check_for_pip_package_condition (the version compliance evaluator)  *)
(*   - get_command_line_params_client  (the client CLI resolver)           *)
(*   - the upgrade decision built on the server's --upgrade-server-packages*)
(*     policy and the client's enforcement switch                          *)
(* Python values are tagged records so that None, str, bool and list stay  *)
(* distinguishable, as they are in the interpreter.                        *)
(***************************************************************************)
EXTENDS Integers, Sequences, FiniteSets, TLC

VARIABLES
    \* ---- check_for_pip_package_condition ----
    pc,                 \* position inside the function
    compare_operator,   \* argument
    specific_version,   \* argument
    distribution,       \* local
    installed,          \* local
    latest,             \* local
    result,             \* returned value (PyNone until the function returns)
    raised,             \* exception leaving the function, "" when none
    calls,              \* calls made on johnnydep so far, in order
    caught,             \* the calls whose exception an except block has handled
    \* ---- upgrade decision ----
    serverPolicy, enforcementFlag, upgrade,
    \* ---- get_command_line_params_client ----
    cpc,                \* position inside the function
    argv,               \* sys.argv[1:]
    pos,                \* index of the next token to consume
    ns,                 \* argparse Namespace (the repeatable dests and debug)
    config              \* returned tuple (its modelled components)

evalVars == <<pc, compare_operator, specific_version, distribution, installed,
              latest, result, raised, calls, caught, serverPolicy, enforcementFlag, upgrade>>
cliVars == <<cpc, argv, pos, ns, config>>
vars == <<evalVars, cliVars>>

(***************************************************************************)
(* Bounds                                                                  *)
(***************************************************************************)
MaxLen == 3     \* longest version string the provider returns
MaxArgs == 4    \* longest command line

(***************************************************************************)
(* Python values                                                           *)
(***************************************************************************)
PyNone == [t |-> "None"]
PyStr(s) == [t |-> "str", s |-> s]
PyBool(b) == [t |-> "bool", b |-> b]
PyList(l) == [t |-> "list", l |-> l]
PyObj == [t |-> "JohnnyDist"]

\* Python truthiness (bool(x)) of the values used here
Truthy(x) ==
    CASE x.t = "None" -> FALSE
      [] x.t = "str" -> x.s # <<>>
      [] x.t = "list" -> x.l # <<>>
      [] x.t = "bool" -> x.b
      [] OTHER -> TRUE

\* str.lower on the characters that occur in the modelled strings
LowerChar(c) ==
    CASE c = "L" -> "l"
      [] c = "A" -> "a"
      [] c = "T" -> "t"
      [] c = "E" -> "e"
      [] c = "S" -> "s"
      [] OTHER -> c

Lower(s) == [i \in 1..Len(s) |-> LowerChar(s[i])]

(***************************************************************************)
(* Strings: sequences of one-character strings                             *)
(***************************************************************************)
VersionAlphabet == {"0", "1", "."}

RECURSIVE StringsOfLen(_)
StringsOfLen(n) ==
    IF n = 0 THEN {<<>>}
    ELSE {Append(s, c) : s \in StringsOfLen(n - 1), c \in VersionAlphabet}

Strings == UNION {StringsOfLen(n) : n \in 0..MaxLen}

str_latest == <<"l", "a", "t", "e", "s", "t">>
str_LATEST == <<"L", "A", "T", "E", "S", "T">>
str_Latest == <<"L", "a", "t", "e", "s", "t">>
str_not_a_version == <<"n", "o", "t", "-", "a", "-", "v">>

\* values passed as specific_version
TargetSpecs == Strings \cup {str_latest, str_LATEST, str_Latest, str_not_a_version}

\* values passed as compare_operator; "~=" is not one of the six
OperatorInputs == {">", ">=", "<", "<=", "!=", "==", "~="}

(***************************************************************************)
(* packaging.version.parse, restricted to release-only versions            *)
(***************************************************************************)
DigitValue(c) == CASE c = "0" -> 0 [] c = "1" -> 1 [] c = "2" -> 2 [] c = "3" -> 3
                   [] c = "4" -> 4 [] c = "5" -> 5 [] c = "6" -> 6 [] c = "7" -> 7
                   [] c = "8" -> 8 [] c = "9" -> 9
IsDigit(c) == c \in {"0", "1", "2", "3", "4", "5", "6", "7", "8", "9"}

\* split on "." : the sequence of segments, each a sequence of characters
RECURSIVE SplitDots(_, _)
SplitDots(s, cur) ==
    IF s = <<>> THEN <<cur>>
    ELSE IF Head(s) = "." THEN <<cur>> \o SplitDots(Tail(s), <<>>)
    ELSE SplitDots(Tail(s), Append(cur, Head(s)))

\* int(segment)
RECURSIVE SegmentValue(_, _)
SegmentValue(seg, acc) ==
    IF seg = <<>> THEN acc
    ELSE SegmentValue(Tail(seg), 10 * acc + DigitValue(Head(seg)))

\* the version pattern matches: N(.N)* with N = [0-9]+
IsValidVersion(s) ==
    LET segs == SplitDots(s, <<>>)
    IN \A i \in 1..Len(segs) :
          /\ segs[i] # <<>>
          /\ \A j \in 1..Len(segs[i]) : IsDigit(segs[i][j])

\* Version._key release part: trailing zeros dropped
RECURSIVE DropTrailingZeros(_)
DropTrailingZeros(rel) ==
    IF rel # <<>> /\ rel[Len(rel)] = 0
    THEN DropTrailingZeros(SubSeq(rel, 1, Len(rel) - 1))
    ELSE rel

\* version.parse(s) for a valid s: the comparison key
VersionParse(s) ==
    LET segs == SplitDots(s, <<>>)
    IN DropTrailingZeros([i \in 1..Len(segs) |-> SegmentValue(segs[i], 0)])

\* Python tuple ordering
RECURSIVE KeyLess(_, _)
KeyLess(a, b) ==
    IF b = <<>> THEN FALSE
    ELSE IF a = <<>> THEN TRUE
    ELSE IF Head(a) # Head(b) THEN Head(a) < Head(b)
    ELSE KeyLess(Tail(a), Tail(b))

\* the functions of module operator on two parsed versions
operator_lt(a, b) == KeyLess(a, b)
operator_le(a, b) == KeyLess(a, b) \/ a = b
operator_eq(a, b) == a = b
operator_ne(a, b) == a # b
operator_gt(a, b) == KeyLess(b, a)
operator_ge(a, b) == KeyLess(b, a) \/ a = b

\* operator_list[op](a, b), the dictionary of lines 584-591
operator_list(op, a, b) ==
    CASE op = "<=" -> operator_lt(a, b)
      [] op = "<" -> operator_le(a, b)
      [] op = "==" -> operator_eq(a, b)
      [] op = "!=" -> operator_ne(a, b)
      [] op = ">" -> operator_gt(a, b)
      [] op = ">=" -> operator_ge(a, b)

\* the keys of operator_list; any other key raises KeyError
OperatorKeys == {"<=", "<", "==", "!=", ">", ">="}

\* a plausible slip: the unsupported operator is let through
SupportedOperators_all == {">", ">=", "<", "<=", "!=", "==", "~="}

\* the list of the assert on line 537
SupportedOperators == {">", ">=", "<", "<=", "!=", "=="}

(***************************************************************************)
(* The upgrade decision (server policy, client enforcement, compliance)    *)
(***************************************************************************)
\* choices of --upgrade-server-packages
UpgradePolicies == {"NEVER", "OUTDATED", "ALWAYS"}

\* a plausible slip: client enforcement is looked at before the server veto
decide_enforceFirst(policy, enforce, status) ==
    IF enforce THEN TRUE
    ELSE IF policy = "NEVER" THEN FALSE
    ELSE IF policy = "ALWAYS" THEN TRUE
    ELSE status # PyBool(TRUE)

\* first match wins: server veto, client enforcement, ALWAYS, OUTDATED
decide(policy, enforce, status) ==
    IF policy = "NEVER" THEN FALSE
    ELSE IF enforce THEN TRUE
    ELSE IF policy = "ALWAYS" THEN TRUE
    ELSE status # PyBool(TRUE)

(***************************************************************************)
(* check_for_pip_package_condition, statement by statement                 *)
(***************************************************************************)
\* what a johnnydep version property can return
ProviderVersions == {PyStr(s) : s \in Strings} \cup {PyNone}

Return(v) ==
    /\ result' = v
    /\ pc' = "returned"

Raise(e) ==
    /\ raised' = e
    /\ pc' = "raised"

\* line 537: assert compare_operator in [...]
CheckOperator ==
    /\ pc = "assert"
    /\ IF compare_operator \in SupportedOperators
       THEN pc' = "JohnnyDist" /\ UNCHANGED raised
       ELSE Raise("AssertionError")
    /\ UNCHANGED <<compare_operator, specific_version, distribution, installed,
                   latest, result, calls, caught, serverPolicy, enforcementFlag, upgrade>>
    /\ UNCHANGED cliVars

\* lines 539-547: distribution = JohnnyDist(req_string=package_name), guarded
RequestDistribution ==
    /\ pc = "JohnnyDist"
    /\ calls' = Append(calls, "JohnnyDist")
    /\ \/ /\ distribution' = PyObj
          /\ pc' = "version_installed"
          /\ UNCHANGED <<result, caught>>
       \/ /\ caught' = Append(caught, "JohnnyDist")
          /\ Return(PyNone)
          /\ UNCHANGED distribution
    /\ UNCHANGED <<compare_operator, specific_version, installed, latest, raised,
                   serverPolicy, enforcementFlag, upgrade>>
    /\ UNCHANGED cliVars

\* lines 548-557: installed = distribution.version_installed, not guarded
ReadInstalled ==
    /\ pc = "version_installed"
    /\ Truthy(distribution)
    /\ calls' = Append(calls, "version_installed")
    /\ \/ /\ \E v \in ProviderVersions : installed' = v
          /\ pc' = "specific_version"
          /\ UNCHANGED raised
       \/ /\ Raise("Exception")
          /\ UNCHANGED installed
    /\ UNCHANGED <<compare_operator, specific_version, distribution, latest, result,
                   caught, serverPolicy, enforcementFlag, upgrade>>
    /\ UNCHANGED cliVars

\* a plausible slip: the comparison with "latest" without .lower()
UsesSpecificVersion_caseSensitive(sv) == Truthy(sv) /\ sv.s # str_latest

\* line 562: specific_version and specific_version.lower() != "latest"
UsesSpecificVersion(sv) == Truthy(sv) /\ Lower(sv.s) # str_latest

\* a plausible slip: the handler falls back to the installed version
LatestOnLookupError_installed(inst) == inst

\* lines 574-575: except: latest = None
LatestOnLookupError(inst) == PyNone

\* lines 562-575: the requested version, or distribution.version_latest, guarded
ResolveTarget ==
    /\ pc = "specific_version"
    /\ IF UsesSpecificVersion(specific_version)
       THEN /\ latest' = specific_version
            /\ UNCHANGED <<calls, caught>>
       ELSE /\ calls' = Append(calls, "version_latest")
            /\ \/ /\ \E v \in ProviderVersions : latest' = v
                  /\ UNCHANGED caught
               \/ /\ caught' = Append(caught, "version_latest")
                  /\ latest' = LatestOnLookupError(installed)
    /\ pc' = "check"
    /\ UNCHANGED <<compare_operator, specific_version, distribution, installed, result,
                   raised, serverPolicy, enforcementFlag, upgrade>>
    /\ UNCHANGED cliVars

\* lines 593-598: one of the two version.parse calls raises
ParseRaises(i, l) == ~IsValidVersion(i.s) \/ ~IsValidVersion(l.s)

\* a plausible slip: the handler reports a failed comparison
ParseFailureResult_false == PyBool(FALSE)

\* lines 597-598: except: return None
ParseFailureResult == PyNone

\* lines 580-606: the None checks, the parse and the comparison
Compare ==
    /\ pc = "check"
    /\ IF ~Truthy(latest) \/ ~Truthy(installed)
       THEN Return(PyNone) /\ UNCHANGED raised
       ELSE IF ParseRaises(installed, latest)
       THEN Return(ParseFailureResult) /\ UNCHANGED raised
       ELSE IF compare_operator \notin OperatorKeys
       THEN Raise("KeyError") /\ UNCHANGED result
       ELSE /\ Return(PyBool(operator_list(compare_operator,
                                           VersionParse(installed.s),
                                           VersionParse(latest.s))))
            /\ UNCHANGED raised
    /\ UNCHANGED <<compare_operator, specific_version, distribution, installed, latest,
                   calls, caught, serverPolicy, enforcementFlag, upgrade>>
    /\ UNCHANGED cliVars

\* the caller combines the returned compliance with policy and enforcement
Decide ==
    /\ pc = "returned"
    /\ \E p \in UpgradePolicies, e \in BOOLEAN :
          /\ serverPolicy' = p
          /\ enforcementFlag' = e
          /\ upgrade' = decide(p, e, result)
    /\ pc' = "decided"
    /\ UNCHANGED <<compare_operator, specific_version, distribution, installed, latest,
                   result, raised, calls, caught>>
    /\ UNCHANGED cliVars

CliIdle ==
    /\ cpc = "idle"
    /\ argv = <<>>
    /\ pos = 1
    /\ ns = PyNone
    /\ config = PyNone

Init ==
    /\ pc = "assert"
    /\ compare_operator \in OperatorInputs
    /\ specific_version \in {PyStr(s) : s \in TargetSpecs}
    /\ distribution = PyNone
    /\ installed = PyNone
    /\ latest = PyNone
    /\ result = PyNone
    /\ raised = ""
    /\ calls = <<>>
    /\ caught = <<>>
    /\ serverPolicy = "NEVER"
    /\ enforcementFlag = FALSE
    /\ upgrade = FALSE
    /\ CliIdle

Next ==
    \/ CheckOperator
    \/ RequestDistribution
    \/ ReadInstalled
    \/ ResolveTarget
    \/ Compare
    \/ Decide

Spec == Init /\ [][Next]_vars

(***************************************************************************)
(* get_command_line_params_client                                          *)
(***************************************************************************)
\* the add_argument calls with action="extend", nargs="+": flag -> dest
ExtendOptions ==
    [f \in {"--suite", "--test", "--include", "--exclude", "--extension", "--input-dir"} |->
        CASE f = "--suite" -> "robot_suite"
          [] f = "--test" -> "robot_test"
          [] f = "--include" -> "robot_include"
          [] f = "--exclude" -> "robot_exclude"
          [] f = "--extension" -> "robot_extension"
          [] f = "--input-dir" -> "robot_input_dir"]

\* the add_argument calls with action="store_true" (the one modelled)
StoreTrueOptions == [f \in {"--debug"} |-> "robot_debug"]

OptionStrings == DOMAIN ExtendOptions \cup DOMAIN StoreTrueOptions

\* command-line words that are not option strings
ArgValues == {"py", "tests", ".", ""}

\* the directories of the file system (os.path.isdir)
ExistingDirs == {".", "tests"}

isdir(d) == d \in ExistingDirs

RECURSIVE SeqsUpTo(_, _)
SeqsUpTo(S, n) ==
    IF n = 0 THEN {<<>>}
    ELSE LET shorter == SeqsUpTo(S, n - 1)
         IN shorter \cup {Append(q, x) : q \in {r \in shorter : Len(r) = n - 1}, x \in S}

CommandLines == SeqsUpTo(OptionStrings \cup ArgValues, MaxArgs)

\* a plausible slip: the directory is not checked (type=str)
InputDirRaises_never(dir) == FALSE

\* check_if_input_dir_exists raises ValueError
InputDirRaises(dir) == ~isdir(dir)

\* type= of the option: does converting value v raise?
TypeRaises(flag, v) ==
    IF flag = "--input-dir" THEN InputDirRaises(v) ELSE FALSE

\* the words after position p up to the next option string (nargs="+")
RECURSIVE OptionArgs(_, _)
OptionArgs(args, p) ==
    IF p > Len(args) \/ args[p] \in OptionStrings THEN <<>>
    ELSE <<args[p]>> \o OptionArgs(args, p + 1)

\* a plausible slip: action="store", the last occurrence wins
ExtendAction_store(old, values) == PyList(values)

\* action="extend": items = copy of the dest (None -> []), items.extend(values)
ExtendAction(old, values) ==
    IF old = PyNone THEN PyList(values) ELSE PyList(old.l \o values)

\* Namespace after add_argument defaults
EmptyNamespace ==
    [robot_suite |-> PyNone, robot_test |-> PyNone, robot_include |-> PyNone,
     robot_exclude |-> PyNone, robot_extension |-> PyNone, robot_input_dir |-> PyNone,
     robot_debug |-> FALSE, extras |-> <<>>]

\* parser.error(): usage message and SystemExit(2), nothing is returned
ParserError ==
    /\ cpc' = "exit"
    /\ UNCHANGED <<argv, pos, ns, config>>

\* parse_args meets an option with action="extend", nargs="+"
ParseExtend ==
    /\ cpc = "parse_args"
    /\ pos <= Len(argv)
    /\ argv[pos] \in DOMAIN ExtendOptions
    /\ LET flag == argv[pos]
           values == OptionArgs(argv, pos + 1)
       IN IF values = <<>>
          THEN ParserError
          ELSE IF \E i \in 1..Len(values) : TypeRaises(flag, values[i])
          THEN ParserError
          ELSE /\ ns' = [ns EXCEPT ![ExtendOptions[flag]] = ExtendAction(@, values)]
               /\ pos' = pos + 1 + Len(values)
               /\ UNCHANGED <<cpc, argv, config>>
    /\ UNCHANGED evalVars

\* parse_args meets an option with action="store_true"
ParseStoreTrue ==
    /\ cpc = "parse_args"
    /\ pos <= Len(argv)
    /\ argv[pos] \in DOMAIN StoreTrueOptions
    /\ ns' = [ns EXCEPT ![StoreTrueOptions[argv[pos]]] = TRUE]
    /\ pos' = pos + 1
    /\ UNCHANGED <<cpc, argv, config>>
    /\ UNCHANGED evalVars

\* parse_args meets a word no option takes: kept as an unrecognized argument
ParseExtra ==
    /\ cpc = "parse_args"
    /\ pos <= Len(argv)
    /\ argv[pos] \notin OptionStrings
    /\ ns' = [ns EXCEPT !.extras = Append(@, argv[pos])]
    /\ pos' = pos + 1
    /\ UNCHANGED <<cpc, argv, config>>
    /\ UNCHANGED evalVars

\* line 489
DefaultInputDir(d) == IF ~Truthy(d) THEN PyStr(".") ELSE d

\* a plausible slip: a lone empty value counts as not supplied
DefaultExtension_emptyValue(e) ==
    IF ~Truthy(e) \/ e = PyList(<<"">>)
    THEN PyList(<<"robot", "txt", "text", "resource">>) ELSE e

\* lines 490-492
DefaultExtension(e) ==
    IF ~Truthy(e) THEN PyList(<<"robot", "txt", "text", "resource">>) ELSE e

\* lines 462-513: end of parse_args, the defaults, the returned tuple
ReturnParams ==
    /\ cpc = "parse_args"
    /\ pos > Len(argv)
    /\ IF ns.extras # <<>>
       THEN ParserError
       ELSE /\ config' = [robot_suite |-> ns.robot_suite,
                          robot_test |-> ns.robot_test,
                          robot_include |-> ns.robot_include,
                          robot_exclude |-> ns.robot_exclude,
                          robot_debug |-> ns.robot_debug,
                          robot_input_dir |-> DefaultInputDir(ns.robot_input_dir),
                          robot_extension |-> DefaultExtension(ns.robot_extension)]
            /\ cpc' = "returned"
            /\ UNCHANGED <<argv, pos, ns>>
    /\ UNCHANGED evalVars

EvalIdle ==
    /\ pc = "idle"
    /\ compare_operator = "=="
    /\ specific_version = PyNone
    /\ distribution = PyNone
    /\ installed = PyNone
    /\ latest = PyNone
    /\ result = PyNone
    /\ raised = ""
    /\ calls = <<>>
    /\ caught = <<>>
    /\ serverPolicy = "NEVER"
    /\ enforcementFlag = FALSE
    /\ upgrade = FALSE

InitCli ==
    /\ EvalIdle
    /\ cpc = "parse_args"
    /\ argv \in CommandLines
    /\ pos = 1
    /\ ns = EmptyNamespace
    /\ config = PyNone

NextCli ==
    \/ ParseExtend
    \/ ParseStoreTrue
    \/ ParseExtra
    \/ ReturnParams

SpecCli == InitCli /\ [][NextCli]_vars

(***************************************************************************)
(* Properties                                                              *)
(***************************************************************************)
Range(q) == {q[i] : i \in 1..Len(q)}

\* the function has returned a value to its caller
Returned == pc \in {"returned", "decided"}

\* the usual meaning of the six comparison symbols on version keys
UsualMeaning(op, a, b) ==
    CASE op = "<" -> KeyLess(a, b)
      [] op = "<=" -> KeyLess(a, b) \/ a = b
      [] op = "==" -> a = b
      [] op = "!=" -> a # b
      [] op = ">" -> KeyLess(b, a)
      [] op = ">=" -> KeyLess(b, a) \/ a = b

\* both versions were obtained and both parse
BothParsable ==
    /\ Truthy(installed) /\ Truthy(latest)
    /\ IsValidVersion(installed.s) /\ IsValidVersion(latest.s)

\* C1: for each of the six operators and every pair of parsable versions, the
\* returned value is True exactly when "installed <operator> target" holds under
\* the operator's usual meaning, and False otherwise.
C1_UsualMeaning ==
    (Returned /\ BothParsable) =>
        result = PyBool(UsualMeaning(compare_operator,
                                     VersionParse(installed.s), VersionParse(latest.s)))

\* C2: with an operator outside the six symbols the function fails at once with
\* the assertion error, and no call to johnnydep is made before or after.
C2_UnsupportedOperatorNoCalls ==
    compare_operator \notin {"<", "<=", "==", "!=", ">", ">="} =>
        /\ calls = <<>>
        /\ result = PyNone
        /\ pc \in {"assert", "raised"}
        /\ pc = "raised" => raised = "AssertionError"

C2_Witness ==
    /\ compare_operator = "~="
    /\ pc = "raised"
    /\ raised = "AssertionError"
    /\ calls = <<>>

\* C3: when the server policy is NEVER the upgrade decision is false, whatever
\* the client enforcement flag and the compliance result are.
C3_NeverVetoes ==
    (pc = "decided" /\ serverPolicy = "NEVER") => upgrade = FALSE

C3_Witness ==
    /\ pc = "decided"
    /\ serverPolicy = "NEVER"
    /\ enforcementFlag = TRUE
    /\ result = PyBool(FALSE)
    /\ upgrade = FALSE

\* the latest-version lookup was made and raised, or gave no version
LatestLookupFailed ==
    /\ "version_latest" \in Range(calls)
    /\ "version_latest" \in Range(caught) \/ latest = PyNone

\* C4: for every supported operator and every installed version, present or
\* absent, when the target is "latest" and the latest-version lookup fails or
\* gives nothing, the function returns None and does not raise.
C4_LatestFailureIsNone ==
    (Lower(specific_version.s) = str_latest /\ LatestLookupFailed) =>
        /\ raised = ""
        /\ pc \in {"check", "returned", "decided"}
        /\ Returned => result = PyNone

C4_Witness ==
    /\ pc = "returned"
    /\ specific_version = PyStr(str_LATEST)
    /\ "version_latest" \in Range(caught)
    /\ installed = PyStr(<<"1", ".", "0">>)
    /\ compare_operator = ">="
    /\ result = PyNone

\* both version strings were obtained and one of them is not a version
OneUnparsable ==
    /\ Truthy(installed) /\ Truthy(latest)
    /\ ~IsValidVersion(installed.s) \/ ~IsValidVersion(latest.s)

C6_InstalledFailureIsNone ==
    compare_operator \in {"<", "<=", "==", "!=", ">", ">="} =>
        /\ raised = ""
        /\ (Returned /\ ~Truthy(installed)) => result = PyNone

\* the function got as far as choosing the comparison target
TargetResolved ==
    /\ pc \in {"check", "returned", "decided"}
    /\ "version_installed" \in Range(calls)

\* C10 as stated: the latest-version lookup is made if and only if the target
\* equals "latest" case-insensitively; for every other target, an empty one
\* included, it is never made and the target itself is the comparison target.
C10_LookupIffLatest ==
    /\ "version_latest" \in Range(calls) => Lower(specific_version.s) = str_latest
    /\ TargetResolved =>
          IF Lower(specific_version.s) = str_latest
          THEN "version_latest" \in Range(calls)
          ELSE latest = specific_version

\* C10 as amended: the lookup is made if and only if the target is empty or
\* equals "latest" case-insensitively; for every other target it is never made
\* and the target itself, unchanged, is the comparison target.
C10_LookupIffLatestOrEmpty ==
    /\ "version_latest" \in Range(calls) =>
          (specific_version.s = <<>> \/ Lower(specific_version.s) = str_latest)
    /\ TargetResolved =>
          IF specific_version.s = <<>> \/ Lower(specific_version.s) = str_latest
          THEN "version_latest" \in Range(calls)
          ELSE /\ latest = specific_version
               /\ "version_latest" \notin Range(calls)

C10_Witness ==
    /\ TargetResolved
    /\ specific_version = PyStr(<<>>)
    /\ "version_latest" \in Range(calls)

(***************************************************************************)
(* Properties of the client command line                                   *)
(***************************************************************************)
\* the values that follow the occurrences of a flag on the command line, in order
RECURSIVE ValuesGiven(_, _, _)
ValuesGiven(args, current, flag) ==
    IF args = <<>> THEN <<>>
    ELSE IF Head(args) \in OptionStrings THEN ValuesGiven(Tail(args), Head(args), flag)
    ELSE (IF current = flag THEN <<Head(args)>> ELSE <<>>)
         \o ValuesGiven(Tail(args), current, flag)

Occurrences(flag) == Cardinality({i \in 1..Len(argv) : argv[i] = flag})

\* C7: the resolved value of a repeatable option is the concatenation of the
\* values of all its occurrences, in command-line order, duplicates kept.
C7_ExtendAccumulates ==
    cpc = "returned" =>
        \A flag \in {"--suite", "--test", "--include", "--exclude",
                     "--extension", "--input-dir"} :
            Occurrences(flag) > 0 =>
                config[ExtendOptions[flag]] = PyList(ValuesGiven(argv, "", flag))

C7_Witness ==
    /\ cpc = "returned"
    /\ argv = <<"--extension", "py", "--extension", ".">>
    /\ config.robot_extension = PyList(<<"py", ".">>)

\* C8: the default of --extension is substituted if and only if the flag never
\* occurs; when the flag was supplied, an empty value included, the resolved
\* value is what was supplied.
C8_DefaultOnlyWhenAbsent ==
    cpc = "returned" =>
        IF Occurrences("--extension") = 0
        THEN /\ ns.robot_extension = PyNone
             /\ config.robot_extension = PyList(<<"robot", "txt", "text", "resource">>)
        ELSE /\ config.robot_extension = ns.robot_extension
             /\ config.robot_extension.l # <<>>

C8_Witness ==
    /\ cpc = "returned"
    /\ argv = <<"--debug", "--extension", "">>
    /\ config.robot_extension = PyList(<<"">>)

\* a value given to --input-dir is not an existing directory
BadInputDirGiven ==
    LET given == ValuesGiven(argv, "", "--input-dir")
    IN \E i \in 1..Len(given) : given[i] \notin ExistingDirs

\* C9: if any value given to --input-dir is not an existing directory, the
\* resolution returns no configuration, wherever the value stands and however
\* many valid directories are given with it.
C9_BadInputDirNoConfig ==
    BadInputDirGiven =>
        /\ cpc # "returned"
        /\ config = PyNone
        /\ cpc = "parse_args" => pos <= Len(argv)

C9_Witness ==
    /\ cpc = "exit"
    /\ argv = <<"--debug", "--input-dir", ".", "py">>
    /\ config = PyNone

\* C11: every returned configuration has a list of directories as its
\* input-directory component: the one-element list holding "." when --input-dir
\* is never supplied, and otherwise the list of the supplied directories, each
\* of which exists.
C11_InputDirIsList ==
    cpc = "returned" =>
        /\ config.robot_input_dir.t = "list"
        /\ IF Occurrences("--input-dir") = 0
           THEN config.robot_input_dir = PyList(<<".">>)
           ELSE /\ config.robot_input_dir = PyList(ValuesGiven(argv, "", "--input-dir"))
                /\ \A i \in 1..Len(config.robot_input_dir.l) :
                      isdir(config.robot_input_dir.l[i])

====
